---------------------------- MODULE Spec2Model ----------------------------
(***************************************************************************)
(* The player of shining-soul-j (src/src/objects/Player.ts): hit points    *)
(* and the events of receiveDamage, the PlayerState machine with its       *)
(* elapsed-time counter, and the velocity / flip / animation resolution of *)
(* update.                                                                 *)
(*                                                                         *)
(* Numbers of the physics body are exact reals of the form r + s/sqrt(2),  *)
(* r and s integers, written [r |-> r, s |-> s]: the only irrational the   *)
(* code produces is 1/sqrt(2), from normalize() on a (+-1, +-1) vector.    *)
(* IEEE rounding of Math.sqrt is not modelled.                             *)
(***************************************************************************)
EXTENDS Integers, Sequences, FiniteSets, TLC

VARIABLES
    hitPoints,      \* Player.hitPoints
    effects,        \* sound plays and dispatcher emits of the latest receiveDamage, in order
    frame,          \* the sprite's texture frame as set by setFrame: "asset" or "hit"
    currentState,   \* Player.currentState
    elapsedTime,    \* Player.elapsedTime
    keys,           \* isDown of keyW, keyA, keyS, keyD as read by the latest update
    velocity,       \* getBody().velocity
    flipX,          \* the sprite's flipX
    weaponFlipX,    \* weapon's flipX
    immovable,      \* getBody().immovable
    anim,           \* key of the animation given to anims.play: "none", "idle", "run"
    attackEnabled,  \* Player.attackEnabled
    keyJ,           \* isDown of keyJ as read by the latest update
    swingStep,      \* the weapon's swing: 0 at rest, 1..SwingTicks while it rotates
    weaponCalls,    \* the weapon.update calls of the latest operation, each with what it is given and can read
    weaponVisible,  \* weapon's visible
    weaponBodyEnabled, \* weapon.getBody().enable
    weaponModel,    \* the asset of the weapon's model
    subscribed,     \* handleItemSlotChange is registered with the EventDispatcher
    lastOp,         \* history: the latest operation and its arguments
    lastSet,        \* history: argument of the latest setCurrentState call, "none" before
    total,          \* history: sum of the deltas of the updates since the latest setCurrentState call
    startTotal,     \* history: total when the latest update began, -1 if none since the latest setCurrentState call
    prev            \* history: hitPoints, currentState and elapsedTime before the latest operation

vars == <<hitPoints, effects, frame, currentState, elapsedTime, keys, velocity,
          flipX, weaponFlipX, immovable, anim, attackEnabled, keyJ, swingStep,
          weaponCalls, weaponVisible, weaponBodyEnabled, weaponModel, subscribed,
          lastOp, lastSet, total, startTotal, prev>>

damageVars == <<hitPoints, effects, frame>>

moveVars == <<currentState, elapsedTime, keys, velocity, flipX, weaponFlipX,
              immovable, anim, lastSet, total, startTotal>>

weaponVars == <<attackEnabled, keyJ, swingStep>>

equipVars == <<weaponVisible, weaponBodyEnabled, weaponModel, subscribed>>

---------------------------------------------------------------------------
(* Program constants *)

MAX_HIT_POINTS == 8

MOVE_SPEED == 64

FinishTalkingDelay == 200

PlayerState == {"Default", "Talking", "FinishTalking"}

KeyNames == {"W", "A", "S", "D"}

---------------------------------------------------------------------------
(* Bounds of the model *)

\* receiveDamage is called with amounts in -MaxHeal .. MaxDamage
MaxDamage == 9

MaxHeal == 2

\* hitPoints above MAX_HIT_POINTS are followed up to MAX_HIT_POINTS + MaxOverheal
MaxOverheal == 2

\* update is called with a delta of DeltaShort or DeltaLong milliseconds
DeltaShort == 100

DeltaLong == 101

\* update is not called once elapsedTime would pass MaxElapsed
MaxElapsed == 402

Damages == (0 - MaxHeal)..MaxDamage

Deltas == {DeltaShort, DeltaLong}

KeyStates == [KeyNames -> BOOLEAN]

\* a swing of the weapon takes SwingTicks weapon updates
SwingTicks == 3

\* the weapon assets an ItemSlotChange event can carry; "none" is an event without one
WeaponAssets == {"RegularSword", "OtherWeapon"}

SlotAssets == WeaponAssets \cup {"none"}

---------------------------------------------------------------------------
(* Numbers r + s/sqrt(2) and vectors of them *)

Num(r, s) == [r |-> r, s |-> s]

Vec(x, y) == [x |-> Num(x, 0), y |-> Num(y, 0)]

Zero == Vec(0, 0)

\* the sign of r + s/sqrt(2): -1, 0 or 1
Sign(n) ==
    IF n.r >= 0 /\ n.s >= 0 THEN (IF n.r = 0 /\ n.s = 0 THEN 0 ELSE 1)
    ELSE IF n.r <= 0 /\ n.s <= 0 THEN -1
    ELSE IF n.r > 0 THEN (IF 2 * n.r * n.r > n.s * n.s THEN 1 ELSE -1)
    ELSE (IF n.s * n.s > 2 * n.r * n.r THEN 1 ELSE -1)

NormalizeSkipped(v) == v

\* Phaser.Math.Vector2.normalize on a vector of integers of squared length
\* 0, 1 or 2: len = x*x + y*y; if (len > 0) { len = 1/sqrt(len); x *= len; y *= len }
Normalize(v) ==
    LET len == v.x.r * v.x.r + v.y.r * v.y.r
    IN  IF len = 2
        THEN [x |-> Num(0, v.x.r), y |-> Num(0, v.y.r)]
        ELSE v

\* Phaser.Math.Vector2.scale
Scale(v, k) == [x |-> Num(v.x.r * k, v.x.s * k), y |-> Num(v.y.r * k, v.y.s * k)]

Max(a, b) == IF a >= b THEN a ELSE b

---------------------------------------------------------------------------
(* History *)

Op(op, arg) == [op |-> op, arg |-> arg]

Before == [hitPoints |-> hitPoints, currentState |-> currentState,
           elapsedTime |-> elapsedTime]

---------------------------------------------------------------------------
(* constructor *)

Init ==
    /\ hitPoints = MAX_HIT_POINTS
    /\ effects = <<>>
    /\ frame = "asset"
    /\ currentState = "Default"
    /\ elapsedTime = 0
    /\ keys = [k \in KeyNames |-> FALSE]
    /\ velocity = Zero
    /\ flipX = FALSE
    /\ weaponFlipX = FALSE
    /\ immovable = FALSE
    /\ anim = "none"
    /\ attackEnabled = TRUE
    /\ keyJ = FALSE
    /\ swingStep = 0
    /\ weaponCalls = <<>>
    /\ weaponVisible = TRUE
    /\ weaponBodyEnabled = TRUE
    /\ weaponModel = "RegularSword"
    /\ subscribed = TRUE
    /\ lastOp = Op("constructor", 0)
    /\ lastSet = "none"
    /\ total = 0
    /\ startTotal = 0 - 1
    /\ prev = [hitPoints |-> MAX_HIT_POINTS, currentState |-> "Default",
               elapsedTime |-> 0]

---------------------------------------------------------------------------
(* receiveDamage *)

Effect(type, value) == [type |-> type, value |-> value]

DamagedHitPointsUnclamped(h, damage) == h - damage

\* this.hitPoints = Math.max(0, this.hitPoints - damage)
DamagedHitPoints(h, damage) == Max(0, h - damage)

\* what receiveDamage plays and emits once hitPoints is h, in the order of the code
DamageEffects(h, damage) ==
    <<Effect("Sound", 0)>>
    \o (IF h = 0 THEN <<Effect("PlayerDies", 0)>> ELSE <<>>)
    \o <<Effect("Damage", damage), Effect("PlayerHpChange", h)>>

receiveDamage(damage) ==
    /\ hitPoints - damage <= MAX_HIT_POINTS + MaxOverheal
    /\ frame' = "hit"
    /\ hitPoints' = DamagedHitPoints(hitPoints, damage)
    /\ effects' = DamageEffects(hitPoints', damage)
    /\ lastOp' = Op("receiveDamage", damage)
    /\ prev' = Before
    /\ weaponCalls' = <<>>
    /\ UNCHANGED <<moveVars, weaponVars, equipVars>>

---------------------------------------------------------------------------
(* update *)

\* the if / else-if ladder over keyW, keyA, keyS, keyD of the Default state
KeyVelocity(k) ==
    IF k["W"] /\ k["A"] THEN Scale(Normalize(Vec(-1, -1)), MOVE_SPEED)
    ELSE IF k["S"] /\ k["A"] THEN Scale(Normalize(Vec(-1, 1)), MOVE_SPEED)
    ELSE IF k["S"] /\ k["D"] THEN Scale(Normalize(Vec(1, 1)), MOVE_SPEED)
    ELSE IF k["W"] /\ k["D"] THEN Scale(Normalize(Vec(1, -1)), MOVE_SPEED)
    ELSE IF k["W"] THEN Vec(0, 0 - MOVE_SPEED)
    ELSE IF k["A"] THEN Vec(0 - MOVE_SPEED, 0)
    ELSE IF k["S"] THEN Vec(0, MOVE_SPEED)
    ELSE IF k["D"] THEN Vec(MOVE_SPEED, 0)
    ELSE Vec(0, 0)

StateVelocityKeysWhenFinishing(state, k, v) ==
    IF state = "Talking" THEN Vec(0, 0) ELSE KeyVelocity(k)

\* the velocity after the state branch of update
StateVelocity(state, k, v) ==
    IF state = "Default" THEN KeyVelocity(k)
    ELSE IF state = "Talking" THEN Vec(0, 0)
    ELSE v

StateAfterAtThreshold(state, elapsed) ==
    IF state = "FinishTalking" /\ elapsed >= FinishTalkingDelay
    THEN "Default"
    ELSE state

StateAfterTalkingToo(state, elapsed) ==
    IF state \in {"FinishTalking", "Talking"} /\ elapsed > FinishTalkingDelay
    THEN "Default"
    ELSE state

StateAfterNever(state, elapsed) == state

\* the state after the state branch of update
StateAfter(state, elapsed) ==
    IF state = "FinishTalking" /\ elapsed > FinishTalkingDelay
    THEN "Default"
    ELSE state

FlipAfterResetWhenIdle(v, flip) ==
    IF Sign(v.x) < 0 THEN TRUE ELSE FALSE

\* "update flip x"
FlipAfter(v, flip) ==
    IF Sign(v.x) > 0 THEN FALSE
    ELSE IF Sign(v.x) < 0 THEN TRUE
    ELSE flip

StationaryOnX(v) == Sign(v.x) = 0

\* "update frame and physics body"
Stationary(v) == Sign(v.x) = 0 /\ Sign(v.y) = 0

\* Player.isActionKeyDown: this.keyJ.isDown
isActionKeyDown(j) == j

WeaponStepRestarting(step, actionDown, enabled) ==
    IF actionDown /\ enabled THEN 1
    ELSE IF step = 0 \/ step >= SwingTicks THEN 0
    ELSE step + 1

\* Weapon.update: at rest a swing starts when the action key is down and the
\* attack is enabled; a swing in progress advances and ends after SwingTicks
WeaponStep(step, actionDown, enabled) ==
    IF step = 0 THEN (IF actionDown /\ enabled THEN 1 ELSE 0)
    ELSE IF step >= SwingTicks THEN 0
    ELSE step + 1

ElapsedAdvancedFirst(elapsed, delta) == elapsed + delta

\* the elapsedTime weapon.update can read: it is called before elapsedTime += delta
ElapsedAtWeaponUpdate(elapsed, delta) == elapsed

\* this.weapon.update(this, this.attackEnabled), with the body and sprite as they are then
WeaponCall(enabled, v, flip, elapsed) ==
    [attackEnabled |-> enabled, velocity |-> v, flipX |-> flip, elapsedTime |-> elapsed]

updateKeepsButRevives ==
    /\ hitPoints' = (IF hitPoints = 0 THEN MAX_HIT_POINTS ELSE hitPoints)
    /\ UNCHANGED <<lastSet, effects, frame, attackEnabled, equipVars>>

\* the fields update does not assign
updateKeeps == UNCHANGED <<lastSet, damageVars, attackEnabled, equipVars>>

update(delta, k, j) ==
    /\ elapsedTime + delta <= MaxElapsed
    /\ keys' = k
    /\ velocity' = StateVelocity(currentState, k, velocity)
    /\ currentState' = StateAfter(currentState, elapsedTime)
    /\ flipX' = FlipAfter(velocity', flipX)
    /\ weaponFlipX' = FlipAfter(velocity', weaponFlipX)
    /\ anim' = (IF Stationary(velocity') THEN "idle" ELSE "run")
    /\ immovable' = Stationary(velocity')
    /\ elapsedTime' = elapsedTime + delta
    /\ lastOp' = Op("update", delta)
    /\ prev' = Before
    /\ total' = total + delta
    /\ startTotal' = total
    /\ keyJ' = j
    /\ weaponCalls' = <<WeaponCall(attackEnabled, velocity', flipX',
                                   ElapsedAtWeaponUpdate(elapsedTime, delta))>>
    /\ swingStep' = WeaponStep(swingStep, isActionKeyDown(j), attackEnabled)
    /\ updateKeeps

---------------------------------------------------------------------------
(* setCurrentState *)

ElapsedAfterSetKeptOnSameState(state, old, elapsed) ==
    IF state = old THEN elapsed ELSE 0

\* this.elapsedTime = 0
ElapsedAfterSet(state, old, elapsed) == 0

setCurrentState(state) ==
    /\ currentState' = state
    /\ elapsedTime' = ElapsedAfterSet(state, currentState, elapsedTime)
    /\ lastSet' = state
    /\ total' = 0
    /\ startTotal' = 0 - 1
    /\ lastOp' = Op("setCurrentState", state)
    /\ prev' = Before
    /\ weaponCalls' = <<>>
    /\ UNCHANGED <<keys, velocity, flipX, weaponFlipX, immovable, anim, damageVars,
                   weaponVars, equipVars>>

---------------------------------------------------------------------------
(* setAttackEnabled *)

setAttackEnabled(enabled) ==
    /\ attackEnabled' = enabled
    /\ lastOp' = Op("setAttackEnabled", enabled)
    /\ prev' = Before
    /\ weaponCalls' = <<>>
    /\ UNCHANGED <<keyJ, swingStep, moveVars, damageVars, equipVars>>

---------------------------------------------------------------------------
(* ItemSlotChange and the scene's shutdown *)

\* this.weapon.setModel(WeaponAssetFactory.create(data.currentWeaponAsset))
WeaponModelAfter(asset, model) == IF asset # "none" THEN asset ELSE model

\* this.weapon.setVisible(true) / setVisible(false)
WeaponVisibleAfter(asset) == asset # "none"

WeaponBodyLeftEnabled(asset) == TRUE

\* this.weapon.getBody().setEnable(true) / setEnable(false)
WeaponBodyEnabledAfter(asset) == asset # "none"

\* Player.handleItemSlotChange(data)
handleItemSlotChange(asset) ==
    /\ weaponModel' = WeaponModelAfter(asset, weaponModel)
    /\ weaponBodyEnabled' = WeaponBodyEnabledAfter(asset)
    /\ weaponVisible' = WeaponVisibleAfter(asset)

\* EventDispatcher.emit(ItemSlotChange, data): the listeners registered with on
\* and not removed with off are called
emitItemSlotChange(asset) ==
    /\ IF subscribed
       THEN handleItemSlotChange(asset)
       ELSE UNCHANGED <<weaponModel, weaponBodyEnabled, weaponVisible>>
    /\ lastOp' = Op("ItemSlotChange", asset)
    /\ prev' = Before
    /\ weaponCalls' = <<>>
    /\ UNCHANGED <<subscribed, moveVars, damageVars, weaponVars>>

\* the scene's SHUTDOWN listener: EventDispatcher.off(ItemSlotChange, handleItemSlotChange, this)
shutdown ==
    /\ subscribed' = FALSE
    /\ lastOp' = Op("shutdown", 0)
    /\ prev' = Before
    /\ weaponCalls' = <<>>
    /\ UNCHANGED <<weaponModel, weaponBodyEnabled, weaponVisible, moveVars, damageVars,
                   weaponVars>>

---------------------------------------------------------------------------
(* Specifications *)

NextDamage == \E damage \in Damages : receiveDamage(damage)

NextMove ==
    \/ \E delta \in Deltas, k \in KeyStates : update(delta, k, FALSE)
    \/ \E state \in PlayerState : setCurrentState(state)

\* the key states with at most keyD down
WeaponKeyStates == {k \in KeyStates : ~k["W"] /\ ~k["A"] /\ ~k["S"]}

NextWeapon ==
    \/ \E delta \in Deltas, k \in WeaponKeyStates, j \in BOOLEAN : update(delta, k, j)
    \/ \E state \in PlayerState : setCurrentState(state)
    \/ \E enabled \in BOOLEAN : setAttackEnabled(enabled)

PlayerDamages == {3, 5}

NextPlayer ==
    \/ \E damage \in PlayerDamages : receiveDamage(damage)
    \/ \E k \in WeaponKeyStates, j \in BOOLEAN : update(DeltaLong, k, j)
    \/ \E state \in PlayerState : setCurrentState(state)
    \/ \E enabled \in BOOLEAN : setAttackEnabled(enabled)
    \/ \E asset \in SlotAssets : emitItemSlotChange(asset)
    \/ shutdown

NextSettle ==
    \/ \E delta \in Deltas, k \in KeyStates : update(delta, k, FALSE)
    \/ \E state \in PlayerState : lastSet = "none" /\ setCurrentState(state)

Next ==
    \/ \E damage \in Damages : receiveDamage(damage)
    \/ \E delta \in Deltas, k \in KeyStates, j \in BOOLEAN : update(delta, k, j)
    \/ \E state \in PlayerState : setCurrentState(state)
    \/ \E enabled \in BOOLEAN : setAttackEnabled(enabled)
    \/ \E asset \in SlotAssets : emitItemSlotChange(asset)
    \/ shutdown

\* every operation of the player
Spec == Init /\ [][Next]_vars

\* the calls of receiveDamage; no other operation reads or writes hitPoints
SpecDamage == Init /\ [][NextDamage]_vars

\* the calls of update and setCurrentState; receiveDamage reads and writes
\* none of the fields they use
SpecMove == Init /\ [][NextMove]_vars

\* update with the action key, setCurrentState and setAttackEnabled; the
\* directional keys are limited to keyD
SpecWeapon == Init /\ [][NextWeapon]_vars

\* every operation, with damages of 3 and 5, one delta and the directional
\* keys limited to keyD
SpecPlayer == Init /\ [][NextPlayer]_vars

\* one setCurrentState call followed by the updates of the game loop, which
\* calls update every frame
SpecSettle == Init /\ [][NextSettle]_vars /\ WF_vars(\E delta \in Deltas, k \in KeyStates : update(delta, k, FALSE))

---------------------------------------------------------------------------
(* Properties of receiveDamage, checked under SpecDamage *)

Damaged == lastOp.op = "receiveDamage"

\* the dispatcher emits of the latest receiveDamage, without the sound
Emitted == SelectSeq(effects, LAMBDA e : e.type # "Sound")

DiesCount == Len(SelectSeq(effects, LAMBDA e : e.type = "PlayerDies"))

\* C1: receiveDamage(d) with d >= 0 leaves hitPoints = max(0, h - d), which is
\* not above the hitPoints h before the call and not negative.
C1_DamageClampsAtZero ==
    (Damaged /\ lastOp.arg >= 0) =>
        /\ hitPoints = (IF prev.hitPoints > lastOp.arg
                        THEN prev.hitPoints - lastOp.arg ELSE 0)
        /\ hitPoints <= prev.hitPoints
        /\ hitPoints >= 0

\* a damage above the remaining hit points was received and clamped to 0
C1_Witness ==
    /\ Damaged
    /\ prev.hitPoints \in 1..MAX_HIT_POINTS
    /\ lastOp.arg > prev.hitPoints
    /\ hitPoints = 0

\* C2: a receiveDamage call emits PlayerDies once when it takes hitPoints from
\* a positive value to 0, and emits none otherwise, so none when hitPoints
\* was 0 already.
C2_DiesOncePerCrossing ==
    Damaged => DiesCount = (IF prev.hitPoints > 0 /\ hitPoints = 0 THEN 1 ELSE 0)

\* C3: a receiveDamage call emits Damage with the amount, then PlayerHpChange
\* with the new hitPoints, then PlayerDies if and only if the new hitPoints is 0.
C3_DamageThenHpChangeThenDies ==
    Damaged =>
        Emitted = <<Effect("Damage", lastOp.arg), Effect("PlayerHpChange", hitPoints)>>
                  \o (IF hitPoints = 0 THEN <<Effect("PlayerDies", 0)>> ELSE <<>>)

\* C8: whatever amounts receiveDamage is called with, negative ones included,
\* 0 <= hitPoints <= MAX_HIT_POINTS.
C8_HitPointsInRange == hitPoints >= 0 /\ hitPoints <= MAX_HIT_POINTS

---------------------------------------------------------------------------
(* Properties of update and setCurrentState, checked under SpecMove *)

Updated == lastOp.op = "update"

\* twice the squared magnitude of v is q + i/sqrt(2) with q, i as below
MagnitudeQ(v) ==
    2 * v.x.r * v.x.r + v.x.s * v.x.s + 2 * v.y.r * v.y.r + v.y.s * v.y.s

MagnitudeI(v) == 4 * (v.x.r * v.x.s + v.y.r * v.y.s)

HasMagnitude(v, m) == MagnitudeQ(v) = 2 * m * m /\ MagnitudeI(v) = 0

\* |a| = |b|, as a * a = b * b
SameAbs(a, b) ==
    /\ 2 * a.r * a.r + a.s * a.s = 2 * b.r * b.r + b.s * b.s
    /\ a.r * a.s = b.r * b.s

Down == {k \in KeyNames : keys[k]}

DiagonalKeys == {{"W", "A"}, {"S", "A"}, {"S", "D"}, {"W", "D"}}

\* C4 as stated: after setCurrentState(FinishTalking) the state is
\* FinishTalking while the deltas of the updates total less than 200 and is
\* Default from the update that brings the total to 200 or more.
C4_DefaultOnCrossingTick ==
    lastSet = "FinishTalking" =>
        currentState = (IF total < FinishTalkingDelay THEN "FinishTalking" ELSE "Default")

\* C4 as amended: after setCurrentState(FinishTalking) the state is
\* FinishTalking through every update that began with the deltas of the
\* earlier updates totalling at most 200, and is Default from the first update
\* that began with that total above 200.
C4_DefaultOnTickAfterCrossing ==
    lastSet = "FinishTalking" =>
        currentState = (IF startTotal > FinishTalkingDelay THEN "Default" ELSE "FinishTalking")

\* an update that began in FinishTalking with more than 200 ms elapsed made the
\* state Default
C4_Witness ==
    /\ Updated
    /\ lastSet = "FinishTalking"
    /\ prev.currentState = "FinishTalking"
    /\ startTotal > FinishTalkingDelay
    /\ currentState = "Default"

\* C5: after an update that began in Talking or FinishTalking the velocity is (0, 0).
C5_NoVelocityWhileTalking ==
    (Updated /\ prev.currentState \in {"Talking", "FinishTalking"}) => velocity = Zero

\* C6: after an update that began in Default the velocity has magnitude
\* MOVE_SPEED when a directional key is down and is (0, 0) when none is; with
\* exactly two keys of a diagonal down its components have the same absolute
\* value, neither of them MOVE_SPEED; with exactly W and A down both
\* components are negative and the sprite is flipped (facing left).
C6_VelocityMagnitude ==
    (Updated /\ prev.currentState = "Default") =>
        /\ Down # {} => HasMagnitude(velocity, MOVE_SPEED)
        /\ Down = {} => velocity = Zero
        /\ Down \in DiagonalKeys =>
            /\ SameAbs(velocity.x, velocity.y)
            /\ ~SameAbs(velocity.x, Num(MOVE_SPEED, 0))
        /\ Down = {"W", "A"} =>
            /\ Sign(velocity.x) < 0
            /\ Sign(velocity.y) < 0
            /\ flipX

\* an update in Default read W and A down and set the normalized diagonal
C6_Witness ==
    /\ Updated
    /\ prev.currentState = "Default"
    /\ Down = {"W", "A"}
    /\ velocity = [x |-> Num(0, 0 - MOVE_SPEED), y |-> Num(0, 0 - MOVE_SPEED)]

\* C7: after an update that began in Default, W and S both down give a
\* vertical velocity of 0 and A and D both down a horizontal velocity of 0.
C7_OpposingKeysCancel ==
    (Updated /\ prev.currentState = "Default") =>
        /\ ({"W", "S"} \subseteq Down) => Sign(velocity.y) = 0
        /\ ({"A", "D"} \subseteq Down) => Sign(velocity.x) = 0

\* C9: after setCurrentState(s) currentState is s and elapsedTime is 0, whatever
\* the state and the elapsed time were; and after setCurrentState(FinishTalking)
\* the state stays FinishTalking until an update begins with more than 200 ms
\* of deltas since that latest call.
C9_SetResetsElapsedTime ==
    /\ lastOp.op = "setCurrentState" =>
        currentState = lastOp.arg /\ elapsedTime = 0
    /\ (lastSet = "FinishTalking" /\ startTotal <= FinishTalkingDelay) =>
        currentState = "FinishTalking"

\* FinishTalking was set again while in FinishTalking with time elapsed
C9_Witness ==
    /\ lastOp.op = "setCurrentState"
    /\ lastOp.arg = "FinishTalking"
    /\ prev.currentState = "FinishTalking"
    /\ prev.elapsedTime > 0
    /\ elapsedTime = 0

\* C10: the update that switches FinishTalking to Default sets elapsedTime to
\* 0, so after it elapsedTime is at most the delta of that update.
C10_ElapsedResetOnAutoTransition ==
    (Updated /\ prev.currentState = "FinishTalking" /\ currentState = "Default") =>
        elapsedTime <= lastOp.arg

---------------------------------------------------------------------------
(* Properties of the weapon update, checked under SpecWeapon *)

C14_WeaponUpdateOrder ==
    Updated =>
        /\ Len(weaponCalls) = 1
        /\ weaponCalls[1].attackEnabled = attackEnabled
        /\ weaponCalls[1].velocity = velocity
        /\ weaponCalls[1].flipX = flipX
        /\ weaponCalls[1].elapsedTime = prev.elapsedTime
        /\ elapsedTime = prev.elapsedTime + lastOp.arg

\* an update in Talking, with the attack disabled and time already elapsed
C14_Witness ==
    /\ Updated
    /\ prev.currentState = "Talking"
    /\ prev.elapsedTime > 0
    /\ ~attackEnabled
    /\ Len(weaponCalls) = 1
    /\ ~weaponCalls[1].attackEnabled

---------------------------------------------------------------------------
(* Further properties of update, checked under SpecMove *)

\* C12: after an update the sprite is not flipped (facing right) if the
\* horizontal velocity is > 0, flipped (facing left) if it is < 0, and flipped
\* as before the update if it is 0; and the weapon's flip always equals the
\* sprite's flip.
C12_FacingFollowsVelocity ==
    /\ [][lastOp'.op = "update" =>
            flipX' = (IF Sign(velocity'.x) > 0 THEN FALSE
                      ELSE IF Sign(velocity'.x) < 0 THEN TRUE
                      ELSE flipX)]_vars
    /\ [](weaponFlipX = flipX)

\* an update left no horizontal velocity and the facing stayed left
C12_Witness ==
    /\ Updated
    /\ Sign(velocity.x) = 0
    /\ flipX
    /\ weaponFlipX

\* C13: after an update the body is immovable and the idle animation is the
\* one played if and only if the velocity is (0, 0); otherwise the run
\* animation is played and the body is movable.
C13_IdleIffStationary ==
    Updated =>
        /\ immovable <=> velocity = Zero
        /\ anim = "idle" <=> velocity = Zero
        /\ anim = "run" <=> velocity # Zero

\* an update in FinishTalking kept a velocity and chose the run animation
C13_Witness ==
    /\ Updated
    /\ prev.currentState = "FinishTalking"
    /\ velocity # Zero
    /\ anim = "run"
    /\ ~immovable

\* C19: the update that switches FinishTalking to Default leaves the velocity
\* as it was, whatever keys are down; an update that begins in Default sets a
\* velocity if and only if a directional key is down.
C19_TransitionTickKeepsVelocity ==
    /\ [][(lastOp'.op = "update" /\ currentState = "FinishTalking"
           /\ currentState' = "Default") => velocity' = velocity]_vars
    /\ []((Updated /\ prev.currentState = "Default") => (velocity = Zero <=> Down = {}))

\* the switching update read keyD down and left a leftward velocity
C19_Witness ==
    /\ Updated
    /\ prev.currentState = "FinishTalking"
    /\ currentState = "Default"
    /\ Down = {"D"}
    /\ Sign(velocity.x) < 0

---------------------------------------------------------------------------
(* Properties over every operation, checked under SpecPlayer *)

\* C15: an ItemSlotChange event emitted while the handler is registered leaves
\* the weapon visible with its body enabled if it carries a weapon asset, and
\* hidden with its body disabled if it carries none; one emitted after the
\* scene's shutdown changes nothing of the weapon.
C15_ItemSlotChange ==
    [][lastOp'.op = "ItemSlotChange" =>
          IF subscribed
          THEN /\ weaponVisible' = (lastOp'.arg # "none")
               /\ weaponBodyEnabled' = (lastOp'.arg # "none")
          ELSE UNCHANGED <<weaponVisible, weaponBodyEnabled, weaponModel, weaponFlipX,
                           swingStep>>]_vars

\* an event without a weapon was emitted after the shutdown and the weapon is
\* still visible
C15_Witness ==
    /\ lastOp.op = "ItemSlotChange"
    /\ lastOp.arg = "none"
    /\ ~subscribed
    /\ weaponVisible
    /\ weaponBodyEnabled

\* C16: only receiveDamage changes hitPoints; and an update at hitPoints = 0
\* in Default still sets a velocity if and only if a directional key is down
\* and still starts a swing of the resting weapon when the action key is down
\* and the attack is enabled.
C16_OnlyDamageChangesHitPoints ==
    /\ [][lastOp'.op # "receiveDamage" => hitPoints' = hitPoints]_vars
    /\ [][(lastOp'.op = "update" /\ hitPoints = 0) =>
            /\ currentState = "Default" =>
                (velocity' = Zero <=> \A k \in KeyNames : ~keys'[k])
            /\ (swingStep = 0 /\ keyJ' /\ attackEnabled) => swingStep' = 1]_vars

\* an update at hitPoints = 0 set a velocity and started a swing
C16_Witness ==
    /\ Updated
    /\ hitPoints = 0
    /\ prev.hitPoints = 0
    /\ velocity # Zero
    /\ swingStep = 1

\* C17 as stated: an operation other than setCurrentState leaves currentState
\* as it was.
C17_OnlySetChangesState ==
    lastOp.op # "setCurrentState" => currentState = prev.currentState

\* C17 as amended: an operation other than setCurrentState leaves currentState
\* as it was, except an update that begins in FinishTalking with more than
\* 200 ms elapsed, which makes it Default.
C17_OnlySetOrSettleChangesState ==
    (lastOp.op # "setCurrentState" /\ currentState # prev.currentState) =>
        /\ lastOp.op = "update"
        /\ prev.currentState = "FinishTalking"
        /\ prev.elapsedTime > FinishTalkingDelay
        /\ currentState = "Default"

\* an update changed the state with no setCurrentState call
C17_Witness ==
    /\ lastOp.op = "update"
    /\ currentState # prev.currentState

---------------------------------------------------------------------------
(* Properties of the settle timer, checked under SpecSettle *)

\* C18: with update called again and again and no further setCurrentState
\* call, FinishTalking leads to Default; and after setCurrentState(Talking) no
\* update leaves Talking.
C18_SettleTimerEnds ==
    /\ (currentState = "FinishTalking") ~> (currentState = "Default")
    /\ [](lastSet = "Talking" => currentState = "Talking")

\* the updates after setCurrentState(FinishTalking) have made the state Default
C18_Witness ==
    /\ lastSet = "FinishTalking"
    /\ currentState = "Default"
    /\ total > FinishTalkingDelay

====
